---- MODULE Spec2Model ----
(***************************************************************************)
(* Model of ink::Mesh construction and its accessors                       *)
(* (ink/geometry/mesh.cc).                                                 *)
(*                                                                         *)
(* Floats are modelled exactly, as integer multiples of 1/Unit; the three  *)
(* non-finite floats are values outside [-FloatMax, FloatMax].  C++ spans  *)
(* and vectors are sequences, std::optional<T> is a sequence of length at  *)
(* most one, and the indices that cross the API (vertex, attribute and     *)
(* triangle indices) are zero-based as in the code.                        *)
(***************************************************************************)
EXTENDS Integers, Sequences, FiniteSets, TLC

\* ------------------------------------------------------------------------
\* Bounds of the model.
\* ------------------------------------------------------------------------
MaxVertices == 3
MaxValue == 2

\* ------------------------------------------------------------------------
\* Floats.
\* ------------------------------------------------------------------------
\* One float unit: 1.0 is Unit, and every scale range / MaxCode of an input
\* made of whole numbers is again a multiple of 1/Unit (lcm(255, 4095)).
Unit == 255 * 273
FloatMax == 2 ^ 30
PosInf == FloatMax + 1
NegInf == (0 - FloatMax) - 1
NaN == FloatMax + 2

IsFinite(x) == x >= 0 - FloatMax /\ x <= FloatMax

\* std::round of p / q for q > 0: halfway cases away from zero.
RoundDiv(p, q) ==
  IF p >= 0 THEN (2 * p + q) \div (2 * q)
  ELSE 0 - ((2 * (0 - p) + q) \div (2 * q))

\* A function on 1..n as a sequence value (a contiguous array).
AsSeq(f) == SubSeq(f, 1, Len(f))

\* Least and greatest element of a non-empty sequence / set of numbers.
MinElement(s) == s[CHOOSE i \in DOMAIN s : \A j \in DOMAIN s : s[i] <= s[j]]
MaxElement(s) == s[CHOOSE i \in DOMAIN s : \A j \in DOMAIN s : s[i] >= s[j]]
MinOf(S) == CHOOSE m \in S : \A x \in S : m <= x
MaxOf(S) == CHOOSE m \in S : \A x \in S : m >= x

\* ------------------------------------------------------------------------
\* MeshFormat (ink/geometry/mesh_format.h).
\* ------------------------------------------------------------------------
kFloat1 == "kFloat1PackedInOneUnsignedByte"
kFloat2 == "kFloat2PackedInThreeUnsignedBytes_XY12"

ComponentCount(type) == IF type = kFloat1 THEN 1 ELSE 2
BitsPerComponent(type) == IF type = kFloat1 THEN 8 ELSE 12
PackedWidth(type) == IF type = kFloat1 THEN 1 ELSE 3
MaxCode(type) == 2 ^ BitsPerComponent(type) - 1

RECURSIVE SumWidths(_, _)
SumWidths(types, k) ==
  IF k = 0 THEN 0 ELSE SumWidths(types, k - 1) + PackedWidth(types[k])

\* A format lays its attributes out back to back; the attribute of the
\* two-component type is the position.
MakeFormat(types) ==
  [attributes |->
     [i \in 1..Len(types) |->
        [type |-> types[i],
         id |-> IF types[i] = kFloat2 THEN "kPosition" ELSE "kOpacityShift",
         packed_offset |-> SumWidths(types, i - 1),
         packed_width |-> PackedWidth(types[i])]],
   packed_vertex_stride |-> SumWidths(types, Len(types))]

Attributes(format) == format.attributes
PackedVertexStride(format) == format.packed_vertex_stride
PositionAttributeIndex(format) ==
  (CHOOSE i \in DOMAIN format.attributes :
     format.attributes[i].id = "kPosition") - 1

Formats ==
  {MakeFormat(<<kFloat2>>), MakeFormat(<<kFloat2, kFloat1>>),
   MakeFormat(<<kFloat1, kFloat2>>)}

RECURSIVE SumComponents(_, _)
SumComponents(format, k) ==
  IF k = 0 THEN 0
  ELSE SumComponents(format, k - 1)
         + ComponentCount(Attributes(format)[k].type)

\* The loop of mesh.cc:91-94.
TotalAttrComponents(format) == SumComponents(format, Len(Attributes(format)))

\* ------------------------------------------------------------------------
\* Per-type pack and unpack routines (ink/geometry/internal/mesh_packing.h).
\* ------------------------------------------------------------------------
Identity == [offset |-> 0, scale |-> Unit]

\* code = round((value - offset) / scale), one code per component.
PackCodes(params, unpacked) ==
  [c \in DOMAIN unpacked |->
     RoundDiv(unpacked[c] - params.components[c].offset,
              params.components[c].scale)]

\* The codes of one attribute, most significant bits first, in packed_width
\* bytes.
CodesToBytes(type, codes) ==
  IF type = kFloat1 THEN <<codes[1] % 256>>
  ELSE <<(codes[1] \div 16) % 256,
         ((codes[1] % 16) * 16) + ((codes[2] \div 256) % 16),
         codes[2] % 256>>

PackAttribute(type, params, unpacked) ==
  CodesToBytes(type, PackCodes(params, unpacked))

UnpackIntegersFromPackedAttribute(type, packed_value) ==
  IF type = kFloat1 THEN <<packed_value[1]>>
  ELSE <<(packed_value[1] * 16) + (packed_value[2] \div 16),
         ((packed_value[2] % 16) * 256) + packed_value[3]>>

\* value = code * scale + offset.
UnpackAttribute(type, params, packed_value) ==
  LET codes == UnpackIntegersFromPackedAttribute(type, packed_value)
  IN [c \in DOMAIN codes |->
        codes[c] * params.components[c].scale + params.components[c].offset]

\* ------------------------------------------------------------------------
\* Quantization parameter resolver
\* (ink/geometry/internal/mesh_packing.h, ComputeCodingParamsArray).
\* ------------------------------------------------------------------------
Ok == [code |-> "kOk", message |-> "", args |-> <<>>]
InvalidArgumentError(message, args) ==
  [code |-> "kInvalidArgument", message |-> message, args |-> args]

\* Parameters derived from the data: the minimum maps to code 0 and the
\* maximum to MaxCode; an all-equal component gets scale 1.
ComputeCodingParams(type, bounds) ==
  [components |->
     [c \in 1..ComponentCount(type) |->
        [offset |-> bounds.minimum[c],
         scale |-> IF bounds.maximum[c] = bounds.minimum[c] THEN Unit
                   ELSE (bounds.maximum[c] - bounds.minimum[c])
                          \div MaxCode(type)]]]

\* What is wrong with a caller-supplied override, "" when it is usable.
OverrideError(type, bounds, params) ==
  IF Len(params.components) /= ComponentCount(type)
  THEN "Wrong number of coding params components"
  ELSE IF \E c \in DOMAIN params.components :
            params.components[c].scale <= 0
  THEN "Coding params must have a positive scale"
  ELSE IF \E c \in DOMAIN params.components :
            \/ bounds.minimum[c] < params.components[c].offset
            \/ bounds.maximum[c] > params.components[c].offset
                 + MaxCode(type) * params.components[c].scale
  THEN "Coding params cannot represent all values"
  ELSE ""

ComputeCodingParamsArray(format, bounds, packing_params) ==
  LET n_attrs == Len(Attributes(format))
      HasOverride(a) == Len(packing_params) /= 0 /\ Len(packing_params[a]) = 1
      Err(a) ==
        IF HasOverride(a)
        THEN OverrideError(Attributes(format)[a].type, bounds[a],
                           packing_params[a][1])
        ELSE ""
      Bad == {a \in 1..n_attrs : Err(a) /= ""}
  IN IF Len(packing_params) /= 0 /\ Len(packing_params) /= n_attrs
     THEN [status |-> InvalidArgumentError("Wrong number of coding params",
                                           <<n_attrs, Len(packing_params)>>),
           value |-> <<>>]
     ELSE IF Bad /= {}
     THEN [status |-> InvalidArgumentError(Err(MinOf(Bad)), <<MinOf(Bad) - 1>>),
           value |-> <<>>]
     ELSE [status |-> Ok,
           value |-> [a \in 1..n_attrs |->
                        IF HasOverride(a) THEN packing_params[a][1]
                        ELSE ComputeCodingParams(Attributes(format)[a].type,
                                                 bounds[a])]]

\* ------------------------------------------------------------------------
\* mesh.cc
\* ------------------------------------------------------------------------
kBytesPerIndex == 2
kMaxVertices == 2 ^ (8 * kBytesPerIndex)

\* The value span_idx has when the attribute loop reaches the attribute
\* with one-based index attr_idx.
SpanIdx(format, attr_idx) == SumComponents(format, attr_idx - 1)

\* ComputeAttributeBounds without span_idx += n_components.
ComputeAttributeBounds_NoSpanAdvance(format, vertex_attributes) ==
  IF Len(vertex_attributes[1]) = 0 THEN <<>>
  ELSE <<[attr_idx \in 1..Len(Attributes(format)) |->
            LET n_components ==
                  ComponentCount(Attributes(format)[attr_idx].type)
            IN [minimum |->
                  [component_idx \in 1..n_components |->
                     MinElement(vertex_attributes[component_idx])],
                maximum |->
                  [component_idx \in 1..n_components |->
                     MaxElement(vertex_attributes[component_idx])]]
         ]>>

ComputeAttributeBounds(format, vertex_attributes) ==
  IF Len(vertex_attributes[1]) = 0 THEN <<>>
  ELSE <<[attr_idx \in 1..Len(Attributes(format)) |->
            LET n_components ==
                  ComponentCount(Attributes(format)[attr_idx].type)
                span_idx == SpanIdx(format, attr_idx)
            IN [minimum |->
                  [component_idx \in 1..n_components |->
                     MinElement(vertex_attributes[span_idx + component_idx])],
                maximum |->
                  [component_idx \in 1..n_components |->
                     MaxElement(vertex_attributes[span_idx + component_idx])]]
         ]>>

\* MakeCodingParamsArrayForEmptyMesh with zero-initialised parameters.
MakeCodingParamsArrayForEmptyMesh_ZeroScale(format) ==
  [attr_idx \in 1..Len(Attributes(format)) |->
     [components |->
        [c \in 1..ComponentCount(Attributes(format)[attr_idx].type) |->
           [offset |-> 0, scale |-> 0]]]]

MakeCodingParamsArrayForEmptyMesh(format) ==
  [attr_idx \in 1..Len(Attributes(format)) |->
     [components |->
        [c \in 1..ComponentCount(Attributes(format)[attr_idx].type) |->
           Identity]]]

\* Unpacked with span_idx restarting at 0 for every attribute.
Unpacked_SpanReset(format, vertex_attributes, vertex_idx, attr_idx) ==
  [component_idx \in 1..ComponentCount(Attributes(format)[attr_idx].type) |->
     vertex_attributes[component_idx][vertex_idx + 1]]

\* The float components the packing loop collects for vertex vertex_idx
\* (zero-based) and the attribute with one-based index attr_idx.
Unpacked(format, vertex_attributes, vertex_idx, attr_idx) ==
  [component_idx \in 1..ComponentCount(Attributes(format)[attr_idx].type) |->
     vertex_attributes[SpanIdx(format, attr_idx) + component_idx]
                      [vertex_idx + 1]]

\* SliceStart without the offset of the vertex record.
SliceStart_NoVertexOffset(format, vertex_idx, attr_idx) ==
  Attributes(format)[attr_idx].packed_offset

\* The zero-based position of the first byte the loop iteration
\* (vertex_idx, attr_idx) writes; it writes packed_width bytes from there.
SliceStart(format, vertex_idx, attr_idx) ==
  vertex_idx * PackedVertexStride(format)
    + Attributes(format)[attr_idx].packed_offset

PackedSlice(format, vertex_idx, attr_idx) ==
  LET first_byte == SliceStart(format, vertex_idx, attr_idx)
  IN first_byte..(first_byte + Attributes(format)[attr_idx].packed_width - 1)

\* The end of the attribute that reaches furthest into a vertex record.
MaxEnd(format) ==
  MaxOf({Attributes(format)[a].packed_offset
           + Attributes(format)[a].packed_width :
         a \in DOMAIN Attributes(format)})

\* The loop iterations that write byte p, found among the vertices whose
\* record can reach p.
Writers(format, n_vertices, p) ==
  LET stride == PackedVertexStride(format)
      max_end == MaxEnd(format)
      lo == IF p < max_end THEN 0 ELSE (p - max_end) \div stride + 1
      hi == IF p \div stride < n_vertices - 1 THEN p \div stride
            ELSE n_vertices - 1
  IN {w \in (lo..hi) \X DOMAIN Attributes(format) :
        /\ SliceStart(format, w[1], w[2]) <= p
        /\ p < SliceStart(format, w[1], w[2])
                 + Attributes(format)[w[2]].packed_width}

\* The buffer is zero-initialised and the loop runs over the vertices and,
\* for each vertex, over the attributes: a byte holds what the last
\* iteration that writes it leaves there.
\* VertexDataSize counting floats instead of packed bytes.
VertexDataSize_Components(format, n_vertices) ==
  n_vertices * TotalAttrComponents(format)

VertexDataSize(format, n_vertices) ==
  n_vertices * PackedVertexStride(format)

PackVertexByteData(format, vertex_attributes, packing_params_array) ==
  LET n_vertices == Len(vertex_attributes[1])
      packed_value ==
        [vertex_idx \in 0..(n_vertices - 1) |->
           [attr_idx \in DOMAIN Attributes(format) |->
              PackAttribute(Attributes(format)[attr_idx].type,
                            packing_params_array[attr_idx],
                            Unpacked(format, vertex_attributes,
                                     vertex_idx, attr_idx))]]
      ByteAt(p) ==
        LET ws == Writers(format, n_vertices, p)
        IN IF ws = {} THEN 0
           ELSE LET vertex_idx == MaxOf({w[1] : w \in ws})
                    attr_idx == MaxOf({w[2] : w \in {x \in ws :
                                                       x[1] = vertex_idx}})
                IN packed_value[vertex_idx][attr_idx]
                     [p - SliceStart(format, vertex_idx, attr_idx) + 1]
  IN AsSeq([q \in 1..VertexDataSize(format, n_vertices) |-> ByteAt(q - 1)])

\* ------------------------------------------------------------------------
\* Triangle index packing (ink/geometry/internal/mesh_packing.h).
\* ------------------------------------------------------------------------
\* Byte byte_idx of an index, least significant byte first.
IndexByte(vertex_index, byte_idx) == (vertex_index \div (256 ^ byte_idx)) % 256

\* index_data after WriteTriangleIndicesToByteArray has run for the triangles
\* 0 .. n_triangles - 1 on a zero-initialised buffer of the given size.
WriteTriangleIndicesToByteArray(n_triangles, bytes_per_index, triangle_indices, size) ==
  AsSeq([q \in 1..size |->
           LET slot == (q - 1) \div bytes_per_index
           IN IF slot \div 3 < n_triangles
              THEN IndexByte(triangle_indices[slot + 1],
                             (q - 1) % bytes_per_index)
              ELSE 0])

RECURSIVE ReadIndex(_, _, _)
ReadIndex(index_data, first, n_bytes) ==
  IF n_bytes = 0 THEN 0
  ELSE index_data[first + 1]
         + 256 * ReadIndex(index_data, first + 1, n_bytes - 1)

ReadTriangleIndicesFromByteArray(triangle_index, bytes_per_index, index_data) ==
  [j \in 1..3 |->
     ReadIndex(index_data, (3 * triangle_index + (j - 1)) * bytes_per_index,
               bytes_per_index)]

\* ------------------------------------------------------------------------
\* Mesh::Create
\* ------------------------------------------------------------------------
\* What one call of Create yields: the status, the mesh when there is one,
\* and what the call did on the way (the results of its calls of the
\* resolver, the number of calls of PackVertexByteData and the indices handed
\* to WriteTriangleIndicesToByteArray).
Failure(status, resolver_calls) ==
  [status |-> status, mesh |-> <<>>, resolver_calls |-> resolver_calls,
   pack_calls |-> 0, index_writes |-> <<>>]

\* TooManyVertices rejecting a mesh of exactly kMaxVertices vertices.
TooManyVertices_AtLimit(n_vertices) == n_vertices >= kMaxVertices

\* TooManyVertices letting one vertex too many through.
TooManyVertices_OnePast(n_vertices) == n_vertices > kMaxVertices + 1

\* n_vertices > kMaxVertices.
TooManyVertices(n_vertices) == n_vertices > kMaxVertices

\* Every triangle index references an existing vertex.
TriangleIndicesInRange(triangle_indices, n_vertices) ==
  \A k \in DOMAIN triangle_indices : triangle_indices[k] < n_vertices

\* ValidationError with the finiteness check ahead of the length check.
ValidationError_NonFiniteFirst(format, vertex_attributes, triangle_indices) ==
  LET total_attr_components == TotalAttrComponents(format)
      n_vertices == Len(vertex_attributes[1])
      unequal == {i \in 2..Len(vertex_attributes) :
                    Len(vertex_attributes[i]) /= n_vertices}
      non_finite == {i \in 1..Len(vertex_attributes) :
                       \E j \in DOMAIN vertex_attributes[i] :
                         ~IsFinite(vertex_attributes[i][j])}
  IN IF total_attr_components /= Len(vertex_attributes)
     THEN InvalidArgumentError(
            "Wrong number of vertex attributes",
            <<total_attr_components, Len(vertex_attributes)>>)
     ELSE IF TooManyVertices(n_vertices)
     THEN InvalidArgumentError(
            "Given more vertices than can be represented by the index",
            <<n_vertices, kMaxVertices>>)
     ELSE IF non_finite /= {}
     THEN InvalidArgumentError(
            "Non-finite value found in vertex attribute span",
            <<MinOf(non_finite) - 1>>)
     ELSE IF unequal /= {}
     THEN InvalidArgumentError(
            "Vertex attributes have unequal lengths",
            <<MinOf(unequal) - 1, Len(vertex_attributes[MinOf(unequal)]),
              n_vertices>>)
     ELSE IF Len(triangle_indices) % 3 /= 0
     THEN InvalidArgumentError(
            "Given a number of triangle indices that is not divisible by 3",
            <<Len(triangle_indices)>>)
     ELSE IF ~TriangleIndicesInRange(triangle_indices, n_vertices)
     THEN InvalidArgumentError(
            "Found a triangle index that references a non-existent vertex",
            <<n_vertices>>)
     ELSE Ok

\* The checks of the arguments, in the order of the code: the status of the
\* first one that fails, Ok when all pass.
ValidationError(format, vertex_attributes, triangle_indices) ==
  LET total_attr_components == TotalAttrComponents(format)
      n_vertices == Len(vertex_attributes[1])
      unequal == {i \in 2..Len(vertex_attributes) :
                    Len(vertex_attributes[i]) /= n_vertices}
      non_finite == {i \in 1..Len(vertex_attributes) :
                       \E j \in DOMAIN vertex_attributes[i] :
                         ~IsFinite(vertex_attributes[i][j])}
  IN IF total_attr_components /= Len(vertex_attributes)
     THEN InvalidArgumentError(
            "Wrong number of vertex attributes",
            <<total_attr_components, Len(vertex_attributes)>>)
     ELSE IF TooManyVertices(n_vertices)
     THEN InvalidArgumentError(
            "Given more vertices than can be represented by the index",
            <<n_vertices, kMaxVertices>>)
     ELSE IF unequal /= {}
     THEN InvalidArgumentError(
            "Vertex attributes have unequal lengths",
            <<MinOf(unequal) - 1, Len(vertex_attributes[MinOf(unequal)]),
              n_vertices>>)
     ELSE IF non_finite /= {}
     THEN InvalidArgumentError(
            "Non-finite value found in vertex attribute span",
            <<MinOf(non_finite) - 1>>)
     ELSE IF Len(triangle_indices) % 3 /= 0
     THEN InvalidArgumentError(
            "Given a number of triangle indices that is not divisible by 3",
            <<Len(triangle_indices)>>)
     ELSE IF ~TriangleIndicesInRange(triangle_indices, n_vertices)
     THEN InvalidArgumentError(
            "Found a triangle index that references a non-existent vertex",
            <<n_vertices>>)
     ELSE Ok

\* The coding parameters of the mesh: the resolver's when there are bounds,
\* the ones of the empty mesh otherwise; calls lists the results of the
\* calls of the resolver.
ResolveCodingParams(format, attribute_bounds, packing_params) ==
  IF Len(attribute_bounds) = 1
  THEN LET result == ComputeCodingParamsArray(format, attribute_bounds[1],
                                              packing_params)
       IN [status |-> result.status, value |-> result.value,
           calls |-> <<result>>]
  ELSE [status |-> Ok, value |-> MakeCodingParamsArrayForEmptyMesh(format),
        calls |-> <<>>]

IndexDataSize(triangle_indices) == kBytesPerIndex * Len(triangle_indices)
\* NTriangles one short when the count is a multiple of 3.
NTriangles_OffByOne(triangle_indices) == (Len(triangle_indices) - 1) \div 3

NTriangles(triangle_indices) == Len(triangle_indices) \div 3

Create(format, vertex_attributes, triangle_indices, packing_params) ==
  LET error == ValidationError(format, vertex_attributes, triangle_indices)
  IN IF error /= Ok THEN Failure(error, <<>>)
     ELSE
       LET attribute_bounds == ComputeAttributeBounds(format, vertex_attributes)
           resolved == ResolveCodingParams(format, attribute_bounds,
                                           packing_params)
       IN IF resolved.status /= Ok
          THEN Failure(resolved.status, resolved.calls)
          ELSE
            LET coding_params_array == resolved.value
                vertex_data ==
                  PackVertexByteData(format, vertex_attributes,
                                     coding_params_array)
                n_triangles == NTriangles(triangle_indices)
                index_data ==
                  WriteTriangleIndicesToByteArray(
                    n_triangles, kBytesPerIndex, triangle_indices,
                    IndexDataSize(triangle_indices))
            IN [status |-> Ok,
                mesh |-> <<[format |-> format,
                            unpacking_params |-> coding_params_array,
                            attribute_bounds |-> attribute_bounds,
                            vertex_data |-> vertex_data,
                            index_data |-> index_data]>>,
                resolver_calls |-> resolved.calls,
                pack_calls |-> 1,
                index_writes |-> SubSeq(triangle_indices, 1, 3 * n_triangles)]

\* ------------------------------------------------------------------------
\* Accessors of a constructed mesh m.
\* ------------------------------------------------------------------------
VertexStride(m) == PackedVertexStride(m.format)
VertexCount(m) == Len(m.vertex_data) \div VertexStride(m)
TriangleCount(m) == Len(m.index_data) \div (3 * kBytesPerIndex)

\* PackedVertexAttribute without the offset of the attribute in the record.
PackedVertexAttribute_NoOffset(m, vertex_index, attribute_index) ==
  LET attr == Attributes(m.format)[attribute_index + 1]
  IN [i \in 1..attr.packed_width |->
        m.vertex_data[vertex_index * VertexStride(m) + i]]

PackedVertexAttribute(m, vertex_index, attribute_index) ==
  LET attr == Attributes(m.format)[attribute_index + 1]
  IN [i \in 1..attr.packed_width |->
        m.vertex_data[vertex_index * VertexStride(m) + attr.packed_offset + i]]

FloatVertexAttribute(m, vertex_index, attribute_index) ==
  UnpackAttribute(Attributes(m.format)[attribute_index + 1].type,
                  m.unpacking_params[attribute_index + 1],
                  PackedVertexAttribute(m, vertex_index, attribute_index))

PackedIntegersForFloatVertexAttribute(m, vertex_index, attribute_index) ==
  UnpackIntegersFromPackedAttribute(
    Attributes(m.format)[attribute_index + 1].type,
    PackedVertexAttribute(m, vertex_index, attribute_index))

TriangleIndices(m, index) ==
  ReadTriangleIndicesFromByteArray(index, kBytesPerIndex, m.index_data)

VertexPosition(m, vertex_index) ==
  FloatVertexAttribute(m, vertex_index, PositionAttributeIndex(m.format))

GetTriangle(m, index) ==
  LET vertex_indices == TriangleIndices(m, index)
  IN [p0 |-> VertexPosition(m, vertex_indices[1]),
      p1 |-> VertexPosition(m, vertex_indices[2]),
      p2 |-> VertexPosition(m, vertex_indices[3])]

\* ------------------------------------------------------------------------
\* Inputs of Create.
\* ------------------------------------------------------------------------
\* Columns of n whole numbers: column c holds (a * c + b * v) mod
\* (MaxValue + 1) for the vertex v.
Grid(format, n, a, b) ==
  AsSeq([c \in 1..TotalAttrComponents(format) |->
           AsSeq([v \in 1..n |->
                    (((c - 1) * a + (v - 1) * b) % (MaxValue + 1)) * Unit])])

\* A non-finite value in the first entry of column 0, or in the last entry
\* of the last column.
WithValueDefect(columns, defect) ==
  LET last == Len(columns)
  IN IF defect = "nan" /\ Len(columns[1]) > 0
     THEN [columns EXCEPT ![1][1] = NaN]
     ELSE IF defect = "inf" /\ Len(columns[last]) > 0
     THEN [columns EXCEPT ![last][Len(columns[last])] = NegInf]
     ELSE IF defect = "posinf" /\ Len(columns[last]) > 0
     THEN [columns EXCEPT ![last][1] = PosInf]
     ELSE columns

\* The last column one entry shorter or longer than the others.
WithLengthDefect(columns, defect) ==
  LET last == Len(columns)
  IN IF defect = "short" /\ Len(columns[last]) > 0
     THEN [columns EXCEPT ![last] = SubSeq(@, 1, Len(@) - 1)]
     ELSE IF defect = "long"
     THEN [columns EXCEPT ![last] = Append(@, 0)]
     ELSE columns

\* One column missing, or one too many.
WithCountDefect(columns, defect) ==
  IF defect = "missing" THEN SubSeq(columns, 1, Len(columns) - 1)
  ELSE IF defect = "extra" THEN Append(columns, columns[1])
  ELSE columns

ValueDefects == {"none", "nan", "inf", "posinf"}
LengthDefects == {"none", "short", "long"}
CountDefects == {"none", "missing", "extra"}

\* Index sequences of 0, 1 or 2 triangles, or with one index too many, over
\* the indices 0 .. MaxVertices.
TriangleInputs ==
  {[i \in 1..len |-> (s + (i - 1) * d) % (MaxVertices + 1)] :
     len \in {0, 3, 4, 6}, s \in 0..MaxVertices, d \in 0..1}

\* Caller-supplied coding parameters: none, one optional per attribute
\* (absent, or the same offset and scale for every component), or one
\* optional too many.
Override(format, attr_idx, offset, scale) ==
  <<[components |->
       [c \in 1..ComponentCount(Attributes(format)[attr_idx].type) |->
          [offset |-> offset, scale |-> scale]]]>>

OverrideParams ==
  {<<0, Unit>>, <<0 - Unit, 2 * Unit>>, <<0, 3 * Unit>>, <<Unit, Unit>>,
   <<0, 0>>}

PackingParamsInputs(format) ==
  LET attrs == DOMAIN Attributes(format)
  IN {<<>>, [a \in attrs |-> <<>>],
      [a \in 1..(Len(Attributes(format)) + 1) |-> <<>>]}
     \cup {[a \in attrs |-> Override(format, a, p[1], p[2])] :
             p \in OverrideParams}
     \cup {[a \in attrs |->
              IF a = 1 THEN Override(format, a, p[1], p[2]) ELSE <<>>] :
             p \in OverrideParams}

\* ------------------------------------------------------------------------
\* The state: the arguments of the call of Create, what the call yielded,
\* the last value an accessor returned, and the mesh that a reconstruction
\* started from.
\* ------------------------------------------------------------------------
VARIABLES format, vertex_attributes, triangle_indices, packing_params,
          pc, status, mesh, resolver_calls, pack_calls, index_writes,
          read, first

vars == <<format, vertex_attributes, triangle_indices, packing_params,
          pc, status, mesh, resolver_calls, pack_calls, index_writes,
          read, first>>

inputs == <<format, vertex_attributes, triangle_indices, packing_params>>
outputs == <<status, mesh, resolver_calls, pack_calls, index_writes>>

NoRead == [op |-> "none", args |-> <<>>, value |-> <<>>]

NotCalled ==
  /\ pc = "start"
  /\ status = Ok
  /\ mesh = <<>>
  /\ resolver_calls = <<>>
  /\ pack_calls = 0
  /\ index_writes = <<>>
  /\ read = NoRead
  /\ first = <<>>

\* Inputs with any combination of shape, value and index defects.
InitDefects ==
  /\ format \in Formats
  /\ \E n \in 0..MaxVertices, vd \in ValueDefects, ld \in LengthDefects,
        cd \in CountDefects :
       vertex_attributes =
         WithCountDefect(
           WithLengthDefect(WithValueDefect(Grid(format, n, 0, 0), vd), ld),
           cd)
  /\ triangle_indices \in TriangleInputs
  /\ packing_params \in {<<>>, [a \in DOMAIN Attributes(format) |->
                                  Override(format, a, 0, 0)]}
  /\ NotCalled

\* Inputs that pass validation, with varied values and coding parameters.
InitValues ==
  /\ format \in Formats
  /\ \E n \in 0..MaxVertices, a \in 0..MaxValue, b \in 0..MaxValue :
       vertex_attributes = Grid(format, n, a, b)
  /\ triangle_indices \in
       {t \in TriangleInputs :
          /\ Len(t) % 3 = 0
          /\ \A k \in DOMAIN t : t[k] < Len(vertex_attributes[1])}
  /\ packing_params \in PackingParamsInputs(format)
  /\ NotCalled

Init == InitDefects \/ InitValues

\* Inputs at the limit of the index width: kMaxVertices vertices or one
\* more, with indices around kMaxVertices.
LimitTriangleInputs ==
  {<<>>, <<0, kMaxVertices - 1, 1>>, <<0, kMaxVertices, 1>>,
   <<kMaxVertices - 1, 0, 1, kMaxVertices>>,
   <<256, 255, 257, 4660, 13330, kMaxVertices - 2>>}

InitLimit ==
  /\ format = MakeFormat(<<kFloat2>>)
  /\ \E n \in {kMaxVertices, kMaxVertices + 1}, ld \in {"none", "short"} :
       vertex_attributes = WithLengthDefect(Grid(format, n, 0, 0), ld)
  /\ triangle_indices \in LimitTriangleInputs
  /\ packing_params = <<>>
  /\ NotCalled

\* ------------------------------------------------------------------------
\* Operations.  A behaviour is one use of the class: the caller constructs
\* a mesh (pc = "created"), may call one accessor on it (pc = "read"), and
\* may construct a second mesh from the values it reads back.  The
\* accessors are const, so one call shows all there is to see of a mesh.
\* ------------------------------------------------------------------------
\* The caller constructs a mesh from the inputs.
CallCreate ==
  /\ pc = "start"
  /\ \E r \in {Create(format, vertex_attributes, triangle_indices,
                      packing_params)} :
        /\ status' = r.status
        /\ mesh' = r.mesh
        /\ resolver_calls' = r.resolver_calls
        /\ pack_calls' = r.pack_calls
        /\ index_writes' = r.index_writes
  /\ pc' = "created"
  /\ UNCHANGED <<inputs, read, first>>

\* The vertex indices the accessors are called with: every vertex of a small
\* mesh, the first ones and the last one of a large mesh.
VertexSamples(m) ==
  {v \in (0..MaxVertices) \cup {kMaxVertices - 1} : v < VertexCount(m)}

AttributeIndices(m) == 0..(Len(Attributes(m.format)) - 1)

CallFloatVertexAttribute ==
  /\ pc = "created"
  /\ mesh /= <<>>
  /\ \E v \in VertexSamples(mesh[1]), a \in AttributeIndices(mesh[1]) :
       read' = [op |-> "FloatVertexAttribute", args |-> <<v, a>>,
                value |-> FloatVertexAttribute(mesh[1], v, a)]
  /\ pc' = "read"
  /\ UNCHANGED <<inputs, outputs, first>>

CallPackedIntegersForFloatVertexAttribute ==
  /\ pc = "created"
  /\ mesh /= <<>>
  /\ \E v \in VertexSamples(mesh[1]), a \in AttributeIndices(mesh[1]) :
       read' = [op |-> "PackedIntegersForFloatVertexAttribute",
                args |-> <<v, a>>,
                value |-> PackedIntegersForFloatVertexAttribute(mesh[1], v, a)]
  /\ pc' = "read"
  /\ UNCHANGED <<inputs, outputs, first>>

CallPackedVertexAttribute ==
  /\ pc = "created"
  /\ mesh /= <<>>
  /\ \E v \in VertexSamples(mesh[1]), a \in AttributeIndices(mesh[1]) :
       read' = [op |-> "PackedVertexAttribute", args |-> <<v, a>>,
                value |-> PackedVertexAttribute(mesh[1], v, a)]
  /\ pc' = "read"
  /\ UNCHANGED <<inputs, outputs, first>>

CallGetTriangle ==
  /\ pc = "created"
  /\ mesh /= <<>>
  /\ \E t \in 0..(TriangleCount(mesh[1]) - 1) :
       read' = [op |-> "GetTriangle", args |-> <<t>>,
                value |-> GetTriangle(mesh[1], t)]
  /\ pc' = "read"
  /\ UNCHANGED <<inputs, outputs, first>>

\* The floats of every vertex attribute of m, as columns.
ReadBack(m) ==
  AsSeq([col \in 1..TotalAttrComponents(m.format) |->
     LET attr_idx == CHOOSE a \in DOMAIN Attributes(m.format) :
                       /\ SpanIdx(m.format, a) < col
                       /\ col <= SpanIdx(m.format, a)
                            + ComponentCount(Attributes(m.format)[a].type)
     IN AsSeq([v \in 1..VertexCount(m) |->
                 FloatVertexAttribute(m, v - 1, attr_idx - 1)
                   [col - SpanIdx(m.format, attr_idx)]])])

\* The caller reads every attribute of the mesh back as floats and constructs
\* a second mesh from them, with the coding parameters of the first mesh as
\* the override of every attribute.  The model follows this for the meshes
\* of up to MaxVertices vertices.
Reconstruct ==
  /\ pc \in {"created", "read"}
  /\ mesh /= <<>>
  /\ first = <<>>
  /\ VertexCount(mesh[1]) <= MaxVertices
  /\ vertex_attributes' = ReadBack(mesh[1])
  /\ packing_params' =
       [a \in DOMAIN Attributes(format) |-> <<mesh[1].unpacking_params[a]>>]
  /\ \E r \in {Create(format, vertex_attributes', triangle_indices,
                      packing_params')} :
        /\ status' = r.status
        /\ mesh' = r.mesh
        /\ resolver_calls' = r.resolver_calls
        /\ pack_calls' = r.pack_calls
        /\ index_writes' = r.index_writes
  /\ first' = mesh
  /\ read' = NoRead
  /\ pc' = "created"
  /\ UNCHANGED <<format, triangle_indices>>

Next ==
  \/ CallCreate
  \/ CallFloatVertexAttribute
  \/ CallPackedIntegersForFloatVertexAttribute
  \/ CallPackedVertexAttribute
  \/ CallGetTriangle
  \/ Reconstruct

Spec == Init /\ [][Next]_vars

SpecLimit == (Init \/ InitLimit) /\ [][Next]_vars

\* ------------------------------------------------------------------------
\* The validation rules, stated over the arguments of the call.
\* ------------------------------------------------------------------------
Rule1 == Len(vertex_attributes) = TotalAttrComponents(format)
Rule2 == Len(vertex_attributes[1]) <= 2 ^ (8 * kBytesPerIndex)
Rule3 ==
  \A i \in DOMAIN vertex_attributes :
    Len(vertex_attributes[i]) = Len(vertex_attributes[1])
Rule4 ==
  \A i \in DOMAIN vertex_attributes :
    \A j \in DOMAIN vertex_attributes[i] : IsFinite(vertex_attributes[i][j])
Rule5 == Len(triangle_indices) % 3 = 0
Rule6 ==
  \A k \in DOMAIN triangle_indices :
    triangle_indices[k] < Len(vertex_attributes[1])

FirstViolatedRule ==
  IF ~Rule1 THEN 1 ELSE IF ~Rule2 THEN 2 ELSE IF ~Rule3 THEN 3
  ELSE IF ~Rule4 THEN 4 ELSE IF ~Rule5 THEN 5 ELSE IF ~Rule6 THEN 6 ELSE 0

AllRulesHold == FirstViolatedRule = 0

RuleMessage ==
  <<"Wrong number of vertex attributes",
    "Given more vertices than can be represented by the index",
    "Vertex attributes have unequal lengths",
    "Non-finite value found in vertex attribute span",
    "Given a number of triangle indices that is not divisible by 3",
    "Found a triangle index that references a non-existent vertex">>

NVertices == Len(vertex_attributes[1])
AttrIndices == DOMAIN Attributes(format)

\* The column of component c of the attribute with one-based index a: the
\* components of the attributes before a come first.
ColumnOf(a, c) == vertex_attributes[SumComponents(format, a - 1) + c]

Abs(x) == IF x < 0 THEN 0 - x ELSE x

\* ------------------------------------------------------------------------
\* C1: when the arguments of Create violate one or more of the six rules,
\* the error returned is the one of the lowest-numbered violated rule.
\* ------------------------------------------------------------------------
C1_FirstViolationWins ==
  (pc /= "start" /\ FirstViolatedRule /= 0)
    => /\ status.code = "kInvalidArgument"
       /\ status.message = RuleMessage[FirstViolatedRule]

\* Unequal lengths together with a non-finite value, a bad index count and
\* an index out of range: unequal lengths is reported.
C1_Witness ==
  /\ pc = "created"
  /\ Rule1 /\ Rule2 /\ ~Rule3 /\ ~Rule4 /\ ~Rule5 /\ ~Rule6
  /\ status.message = RuleMessage[3]

\* ------------------------------------------------------------------------
\* C2: Create returns a mesh exactly when the six rules hold (up to and
\* including 2^(8*kBytesPerIndex) vertices) and, for a non-empty mesh, the
\* resolver succeeds; otherwise it returns an error and no mesh, and an
\* error of the resolver is returned as it is, before anything is packed.
\* ------------------------------------------------------------------------
ResolverSucceeds ==
  ComputeCodingParamsArray(
    format, ComputeAttributeBounds(format, vertex_attributes)[1],
    packing_params).status = Ok

C2_MeshIffValid ==
  pc /= "start"
    => /\ (mesh /= <<>>)
            <=> (AllRulesHold /\ (NVertices > 0 => ResolverSucceeds))
       /\ (mesh = <<>>) <=> (status /= Ok)
       /\ Len(mesh) <= 1
       /\ \A i \in DOMAIN resolver_calls :
            resolver_calls[i].status /= Ok
              => /\ status = resolver_calls[i].status
                 /\ mesh = <<>>
                 /\ pack_calls = 0
                 /\ index_writes = <<>>

\* A mesh of exactly 2^(8*kBytesPerIndex) vertices is accepted.
C2_Witness ==
  /\ pc = "created"
  /\ mesh /= <<>>
  /\ NVertices = 2 ^ (8 * kBytesPerIndex)

\* ------------------------------------------------------------------------
\* C3: for valid arguments with zero vertices Create does not call the
\* resolver, stores no bounds and stores offset 0, scale 1 for every
\* component of every attribute, whatever overrides the caller passed; with
\* at least one vertex the bounds are present and the stored parameters are
\* the ones the resolver returned.
\* ------------------------------------------------------------------------
C3_EmptyMeshIdentity ==
  (pc /= "start" /\ AllRulesHold)
    => IF NVertices = 0
       THEN /\ mesh /= <<>>
            /\ resolver_calls = <<>>
            /\ mesh[1].attribute_bounds = <<>>
            /\ Len(mesh[1].unpacking_params) = Len(Attributes(format))
            /\ \A a \in AttrIndices :
                 /\ Len(mesh[1].unpacking_params[a].components)
                      = ComponentCount(Attributes(format)[a].type)
                 /\ \A c \in DOMAIN mesh[1].unpacking_params[a].components :
                      mesh[1].unpacking_params[a].components[c]
                        = [offset |-> 0, scale |-> Unit]
       ELSE mesh /= <<>>
              => /\ Len(mesh[1].attribute_bounds) = 1
                 /\ Len(resolver_calls) = 1
                 /\ mesh[1].unpacking_params = resolver_calls[1].value

\* An empty mesh constructed although the caller passed an override.
C3_Witness ==
  /\ pc = "created"
  /\ mesh /= <<>>
  /\ NVertices = 0
  /\ packing_params /= <<>>
  /\ Len(packing_params[1]) = 1

\* ------------------------------------------------------------------------
\* C4: the bounds of a mesh with at least one vertex have one entry per
\* attribute, and the minimum and maximum of component c of attribute a are
\* the least and the greatest value of the column of that component.
\* ------------------------------------------------------------------------
C4_BoundsAreColumnExtremes ==
  (pc /= "start" /\ mesh /= <<>> /\ NVertices >= 1)
    => /\ Len(mesh[1].attribute_bounds) = 1
       /\ Len(mesh[1].attribute_bounds[1]) = Len(Attributes(format))
       /\ \A a \in AttrIndices :
            LET b == mesh[1].attribute_bounds[1][a]
                n_components == ComponentCount(Attributes(format)[a].type)
            IN /\ Len(b.minimum) = n_components
               /\ Len(b.maximum) = n_components
               /\ \A c \in 1..n_components :
                    /\ \A v \in 1..NVertices :
                         /\ b.minimum[c] <= ColumnOf(a, c)[v]
                         /\ ColumnOf(a, c)[v] <= b.maximum[c]
                    /\ \E v \in 1..NVertices : ColumnOf(a, c)[v] = b.minimum[c]
                    /\ \E v \in 1..NVertices : ColumnOf(a, c)[v] = b.maximum[c]

\* Two attributes whose first components have different, non-trivial bounds.
C4_Witness ==
  /\ pc = "created"
  /\ mesh /= <<>>
  /\ NVertices >= 2
  /\ Len(Attributes(format)) = 2
  /\ LET b == mesh[1].attribute_bounds[1]
     IN /\ b[2].minimum[1] < b[2].maximum[1]
        /\ b[1].maximum[1] /= b[2].maximum[1]

\* ------------------------------------------------------------------------
\* C5: the vertex count of a constructed mesh is the length of column 0, its
\* vertex buffer has vertex count * stride bytes and its index buffer has
\* kBytesPerIndex bytes per triangle index, 3 * kBytesPerIndex per triangle.
\* ------------------------------------------------------------------------
C5_BufferLengths ==
  (pc /= "start" /\ mesh /= <<>>)
    => /\ VertexCount(mesh[1]) = NVertices
       /\ Len(mesh[1].vertex_data) = NVertices * PackedVertexStride(format)
       /\ Len(mesh[1].index_data) = kBytesPerIndex * Len(triangle_indices)
       /\ Len(mesh[1].index_data)
            = 3 * kBytesPerIndex * (Len(triangle_indices) \div 3)

\* A mesh of several vertices and two triangles.
C5_Witness ==
  /\ pc = "created"
  /\ mesh /= <<>>
  /\ NVertices >= 2
  /\ Len(triangle_indices) = 6
  /\ Len(mesh[1].vertex_data) > PackedVertexStride(format)

\* ------------------------------------------------------------------------
\* C6: for every triangle t of a constructed mesh, the indices unpacked from
\* the index buffer are the three input indices of t in their order, and
\* GetTriangle(t) holds the positions of those three vertices in that order.
\* ------------------------------------------------------------------------
C6_TriangleRoundTrip ==
  (pc /= "start" /\ mesh /= <<>>)
    => /\ TriangleCount(mesh[1]) = Len(triangle_indices) \div 3
       /\ \A t \in 0..(Len(triangle_indices) \div 3 - 1) :
            LET i0 == triangle_indices[3 * t + 1]
                i1 == triangle_indices[3 * t + 2]
                i2 == triangle_indices[3 * t + 3]
                Position(v) ==
                  FloatVertexAttribute(mesh[1], v,
                                       PositionAttributeIndex(format))
            IN /\ TriangleIndices(mesh[1], t) = <<i0, i1, i2>>
               /\ GetTriangle(mesh[1], t)
                    = [p0 |-> Position(i0), p1 |-> Position(i1),
                       p2 |-> Position(i2)]

\* Two triangles with indices that need both bytes of an index.
C6_Witness ==
  /\ pc = "read"
  /\ read.op = "GetTriangle"
  /\ read.args = <<1>>
  /\ \E k \in DOMAIN triangle_indices :
       /\ triangle_indices[k] >= 256
       /\ triangle_indices[k] % 256 /= triangle_indices[k] \div 256

C9_LayoutAgreement ==
  (pc /= "start" /\ mesh /= <<>>)
    => LET m == mesh[1]
           stride == PackedVertexStride(format)
           SliceFirst(v, a) == v * stride + Attributes(format)[a].packed_offset
           Slice(v, a) ==
             SliceFirst(v, a)
               ..(SliceFirst(v, a) + Attributes(format)[a].packed_width - 1)
           Pairs == (0..(NVertices - 1)) \X AttrIndices
       IN /\ \A w \in Pairs :
               LET v == w[1]
                   a == w[2]
                   bytes == [i \in 1..Attributes(format)[a].packed_width |->
                               m.vertex_data[SliceFirst(v, a) + i]]
               IN /\ Slice(v, a) \subseteq 0..(Len(m.vertex_data) - 1)
                  /\ bytes = PackAttribute(
                               Attributes(format)[a].type,
                               m.unpacking_params[a],
                               [c \in 1..ComponentCount(
                                           Attributes(format)[a].type) |->
                                  ColumnOf(a, c)[v + 1]])
                  /\ PackedVertexAttribute(m, v, a - 1) = bytes
          /\ \A w1 \in Pairs : \A w2 \in Pairs :
               w1 /= w2 => Slice(w1[1], w1[2]) \cap Slice(w2[1], w2[2]) = {}
          /\ \A p \in 0..(Len(m.vertex_data) - 1) :
               Cardinality(Writers(format, NVertices, p)) = 1

\* The second attribute of the second vertex read from its slice, in a mesh
\* whose vertex records differ.
C9_Witness ==
  /\ pc = "read"
  /\ read.op = "PackedVertexAttribute"
  /\ read.args = <<1, 1>>
  /\ mesh /= <<>>
  /\ \E i \in DOMAIN read.value : read.value[i] /= 0
  /\ PackedVertexAttribute(mesh[1], 0, 1) /= read.value

\* ------------------------------------------------------------------------
\* C10: every triangle index that Create writes to the index buffer of an
\* accepted mesh is at most 2^(8*kBytesPerIndex) - 1, also for a mesh of
\* 2^(8*kBytesPerIndex) vertices.
\* ------------------------------------------------------------------------
C10_IndicesFitIndexWidth ==
  (pc /= "start" /\ mesh /= <<>>)
    => /\ index_writes = triangle_indices
       /\ \A i \in DOMAIN index_writes :
            index_writes[i] <= 2 ^ (8 * kBytesPerIndex) - 1

\* The largest index of the largest accepted mesh is written.
C10_Witness ==
  /\ pc = "created"
  /\ mesh /= <<>>
  /\ NVertices = 2 ^ (8 * kBytesPerIndex)
  /\ \E i \in DOMAIN index_writes :
       index_writes[i] = 2 ^ (8 * kBytesPerIndex) - 1

====
